---- MODULE Spec2Model ----
(***************************************************************************)
(* US census cleaning script (deepseek_python_20250922_150886.py): one     *)
(* linear pass over a table.  Text cells are sequences of one-character    *)
(* strings; a numeric cell is <<v>> and the missing value (NaN / pd.NA)    *)
(* is <<>>.  Percentages, incomes and counts are whole numbers, for which  *)
(* binary floating point arithmetic is exact.                              *)
(***************************************************************************)
EXTENDS Integers, Sequences, FiniteSets, TLC

VARIABLES files, pc, df, initial_count, duplicate_count, final_count,
          demographic, top_income_states, written, exported, raised

vars == <<files, pc, df, initial_count, duplicate_count, final_count,
          demographic, top_income_states, written, exported, raised>>

(***************************************************************************)
(* Bounds of the input families.                                           *)
(***************************************************************************)
MaxRows == 3
MaxTopRows == 6
MaxDigits == 2
MaxIncomeLen == 3
MaxPop == 2

(***************************************************************************)
(* Program constants.                                                      *)
(***************************************************************************)
HUNDRED == 100
TopN == 5

demographic_cols == <<"Hispanic", "White", "Black", "Native", "Asian", "Pacific">>

DemoSet == {demographic_cols[i] : i \in 1..Len(demographic_cols)}

NaN == <<>>
Missing == <<"nan">>

Digits == {"0", "1", "2", "3", "4", "5", "6", "7", "8", "9"}

DigitVal(c) ==
    CASE c = "0" -> 0 [] c = "1" -> 1 [] c = "2" -> 2 [] c = "3" -> 3
      [] c = "4" -> 4 [] c = "5" -> 5 [] c = "6" -> 6 [] c = "7" -> 7
      [] c = "8" -> 8 [] c = "9" -> 9

Min(a, b) == IF a < b THEN a ELSE b

RECURSIVE Gcd(_, _)
Gcd(a, b) == IF b = 0 THEN a ELSE Gcd(b, a % b)

(***************************************************************************)
(* Text helpers: regex character removal, str.split, str[:-1], float()     *)
(* and int() on a digit string.                                            *)
(***************************************************************************)
RECURSIVE RemoveChars(_, _)
RemoveChars(s, cs) ==
    IF s = <<>> THEN <<>>
    ELSE IF Head(s) \in cs THEN RemoveChars(Tail(s), cs)
         ELSE <<Head(s)>> \o RemoveChars(Tail(s), cs)

IsNumeric(s) == Len(s) > 0 /\ \A i \in 1..Len(s) : s[i] \in Digits

RECURSIVE ParseDigits(_)
ParseDigits(s) ==
    IF s = <<>> THEN 0
    ELSE 10 * ParseDigits(SubSeq(s, 1, Len(s) - 1)) + DigitVal(s[Len(s)])

RECURSIVE Split(_, _)
Split(s, d) ==
    IF \A i \in 1..Len(s) : s[i] # d THEN <<s>>
    ELSE LET k == CHOOSE i \in 1..Len(s) :
                      s[i] = d /\ \A j \in 1..(i - 1) : s[j] # d
         IN <<SubSeq(s, 1, k - 1)>> \o Split(SubSeq(s, k + 1, Len(s)), d)

DropLast(s) == SubSeq(s, 1, Len(s) - 1)

(***************************************************************************)
(* Section 2: glob + read_csv + concat(ignore_index=True).  A table is a   *)
(* sequence of entries [idx, row]: idx is the row's index label.           *)
(***************************************************************************)
RECURSIVE Flatten(_)
Flatten(fs) == IF fs = <<>> THEN <<>> ELSE Head(fs) \o Flatten(Tail(fs))

ResetIndex(rows) == [i \in 1..Len(rows) |-> [idx |-> i - 1, row |-> rows[i]]]

Rows(t) == [i \in 1..Len(t) |-> t[i].row]

ConcatRaises(fs) == Len(fs) = 0

Concat(fs) == ResetIndex(Flatten(fs))

(***************************************************************************)
(* Section 3: Income = Income.replace('[$,]', '', regex=True).astype(float)*)
(***************************************************************************)
IncomeText(c) == RemoveChars(c, {"$", ","})

\* Faulty variant: an Income text left empty by the stripping is let through.
IncomeRaisesLenient(t) ==
    \E i \in 1..Len(t) :
        IncomeText(t[i].row.Income) # <<>> /\ ~IsNumeric(IncomeText(t[i].row.Income))

IncomeRaises(t) == \E i \in 1..Len(t) : ~IsNumeric(IncomeText(t[i].row.Income))

CleanIncome(t) ==
    [i \in 1..Len(t) |->
        [t[i] EXCEPT !.row.Income = <<ParseDigits(IncomeText(@))>>]]

(***************************************************************************)
(* Section 4: GenderPop.str.split('_', expand=True), x.str[:-1],           *)
(* replace('', pd.NA), astype('Int64'), then the column selection that     *)
(* drops GenderPop.                                                        *)
(***************************************************************************)
gender_split(t) == [i \in 1..Len(t) |-> Split(t[i].row.GenderPop, "_")]

SplitWidth(gs) ==
    IF gs = <<>> THEN 0
    ELSE CHOOSE w \in {Len(gs[i]) : i \in 1..Len(gs)} :
             \A i \in 1..Len(gs) : Len(gs[i]) <= w

GenderPart(gs, i, k) == IF k <= Len(gs[i]) THEN DropLast(gs[i][k]) ELSE Missing

ToInt64(c) == IF c = Missing \/ c = <<>> THEN NaN ELSE <<ParseDigits(c)>>

GenderRaises(t) ==
    LET gs == gender_split(t)
    IN \/ SplitWidth(gs) # 2
       \/ \E i \in 1..Len(gs), k \in 1..SplitWidth(gs) :
             LET c == GenderPart(gs, i, k)
             IN c # Missing /\ c # <<>> /\ ~IsNumeric(c)

\* Faulty variant: the two parts are assigned to the wrong columns.
SplitGenderSwapped(t) ==
    LET gs == gender_split(t)
    IN [i \in 1..Len(t) |->
          LET r == t[i].row
          IN [idx |-> t[i].idx,
              row |-> [State |-> r.State, TotalPop |-> r.TotalPop,
                       Hispanic |-> r.Hispanic, White |-> r.White,
                       Black |-> r.Black, Native |-> r.Native,
                       Asian |-> r.Asian, Pacific |-> r.Pacific,
                       Income |-> r.Income,
                       Male |-> ToInt64(GenderPart(gs, i, 2)),
                       Female |-> ToInt64(GenderPart(gs, i, 1))]]]

SplitGender(t) ==
    LET gs == gender_split(t)
    IN [i \in 1..Len(t) |->
          LET r == t[i].row
          IN [idx |-> t[i].idx,
              row |-> [State |-> r.State, TotalPop |-> r.TotalPop,
                       Hispanic |-> r.Hispanic, White |-> r.White,
                       Black |-> r.Black, Native |-> r.Native,
                       Asian |-> r.Asian, Pacific |-> r.Pacific,
                       Income |-> r.Income,
                       Male |-> ToInt64(GenderPart(gs, i, 1)),
                       Female |-> ToInt64(GenderPart(gs, i, 2))]]]

(***************************************************************************)
(* Section 5: df[demographic_cols].replace('%', '', regex=True)            *)
(* .astype(float)                                                          *)
(***************************************************************************)
PercentText(c) == RemoveChars(c, {"%"})

PercentRaises(t) ==
    \E i \in 1..Len(t), c \in DemoSet :
        t[i].row[c] # Missing /\ ~IsNumeric(PercentText(t[i].row[c]))

PercentCell(c) == IF c = Missing THEN NaN ELSE <<ParseDigits(PercentText(c))>>

CleanPercent(t) ==
    [i \in 1..Len(t) |->
        [idx |-> t[i].idx,
         row |-> [c \in DOMAIN t[i].row |->
                     IF c \in DemoSet THEN PercentCell(t[i].row[c])
                     ELSE t[i].row[c]]]]

(***************************************************************************)
(* Section 6: duplicated().sum(), drop_duplicates().reset_index(drop=True) *)
(***************************************************************************)
\* Faulty variant: keep='last'.
DuplicatedKeepLast(t, i) == \E j \in (i + 1)..Len(t) : t[j].row = t[i].row

Duplicated(t, i) == \E j \in 1..(i - 1) : t[j].row = t[i].row

DuplicateCount(t) == Cardinality({i \in 1..Len(t) : Duplicated(t, i)})

RECURSIVE KeepFirst(_, _)
KeepFirst(t, i) ==
    IF i > Len(t) THEN <<>>
    ELSE IF Duplicated(t, i) THEN KeepFirst(t, i + 1)
         ELSE <<t[i]>> \o KeepFirst(t, i + 1)

DropDuplicates(t) == KeepFirst(t, 1)

Deduplicate(t) == ResetIndex(Rows(DropDuplicates(t)))

(***************************************************************************)
(* Section 7: Female_Proportion = (Female / TotalPop).astype(float).       *)
(* A float ratio is a reduced fraction; x/0 is +inf for x > 0 and NaN for  *)
(* x = 0, and a missing Female gives NaN.                                  *)
(***************************************************************************)
FloatNaN == [kind |-> "nan", n |-> 0, d |-> 0]
FloatInf == [kind |-> "inf", n |-> 1, d |-> 0]

Ratio(a, b) == [kind |-> "num", n |-> a \div Gcd(a, b), d |-> b \div Gcd(a, b)]

\* Faulty variant: every division by zero gives NaN.
DivideZeroIsNaN(female, totalpop) ==
    IF female = NaN \/ totalpop = 0 THEN FloatNaN
    ELSE Ratio(female[1], totalpop)

Divide(female, totalpop) ==
    IF female = NaN THEN FloatNaN
    ELSE IF totalpop = 0
         THEN (IF female[1] = 0 THEN FloatNaN ELSE FloatInf)
         ELSE Ratio(female[1], totalpop)

AddFemaleProportion(t) ==
    [i \in 1..Len(t) |->
        LET r == t[i].row
        IN [idx |-> t[i].idx,
            row |-> [State |-> r.State, TotalPop |-> r.TotalPop,
                     Hispanic |-> r.Hispanic, White |-> r.White,
                     Black |-> r.Black, Native |-> r.Native,
                     Asian |-> r.Asian, Pacific |-> r.Pacific,
                     Income |-> r.Income, Male |-> r.Male,
                     Female |-> r.Female,
                     Female_Proportion |-> Divide(r.Female, r.TotalPop)]]]

(***************************************************************************)
(* Section 8: np.polyfit(Female_Proportion, Income, 1).  The least-squares *)
(* solve is ill-posed when an abscissa is not finite or when all abscissae *)
(* are zero (the column scaling divides by zero); the LAPACK build decides *)
(* whether that raises LinAlgError or yields NaN coefficients.             *)
(***************************************************************************)
PolyfitIllPosed(t) ==
    \/ \E i \in 1..Len(t) : t[i].row.Female_Proportion.kind # "num"
    \/ \A i \in 1..Len(t) : t[i].row.Female_Proportion.n = 0

(***************************************************************************)
(* Section 10: row.fillna(100 - row.sum()) if row.isna().any() else row    *)
(***************************************************************************)
RECURSIVE SumCols(_, _)
SumCols(r, k) ==
    IF k = 0 THEN 0
    ELSE SumCols(r, k - 1)
         + (IF r[demographic_cols[k]] = NaN THEN 0 ELSE r[demographic_cols[k]][1])

RowSum(r) == SumCols(r, Len(demographic_cols))

AnyNa(r) == \E c \in DemoSet : r[c] = NaN

FillNa(r, v) ==
    [c \in DOMAIN r |-> IF c \in DemoSet /\ r[c] = NaN THEN <<v>> ELSE r[c]]

\* Faulty variants: fill with 100, split the remainder over the missing slots,
\* treat a zero as missing.
ImputeRowNoComplement(r) == IF AnyNa(r) THEN FillNa(r, HUNDRED) ELSE r

ImputeRowSplit(r) ==
    IF AnyNa(r)
    THEN FillNa(r, (HUNDRED - RowSum(r)) \div Cardinality({c \in DemoSet : r[c] = NaN}))
    ELSE r

ImputeRowFalsy(r) ==
    [c \in DOMAIN r |->
        IF c \in DemoSet /\ (r[c] = NaN \/ r[c] = <<0>>)
        THEN <<HUNDRED - RowSum(r)>>
        ELSE r[c]]

ImputeRow(r) == IF AnyNa(r) THEN FillNa(r, HUNDRED - RowSum(r)) ELSE r

Impute(t) == [i \in 1..Len(t) |-> [idx |-> t[i].idx, row |-> ImputeRow(t[i].row)]]

(***************************************************************************)
(* Section 11: one histogram file per demographic column.                  *)
(***************************************************************************)
HistFile(c) ==
    CASE c = "Hispanic" -> "hispanic_distribution.png"
      [] c = "White" -> "white_distribution.png"
      [] c = "Black" -> "black_distribution.png"
      [] c = "Native" -> "native_distribution.png"
      [] c = "Asian" -> "asian_distribution.png"
      [] c = "Pacific" -> "pacific_distribution.png"

ScatterFile == "income_vs_female_proportion.png"

ExportFile == "cleaned_us_census_data.csv"

(***************************************************************************)
(* Section 12: df.nlargest(5, 'Income') with keep='first': the rows in     *)
(* descending Income, equal Incomes in row order, cut after n rows.        *)
(***************************************************************************)
\* Faulty variant: keep='last'.
BeforeKeepLast(t, j, i) ==
    \/ t[j].row.Income[1] > t[i].row.Income[1]
    \/ t[j].row.Income[1] = t[i].row.Income[1] /\ j > i

Before(t, j, i) ==
    \/ t[j].row.Income[1] > t[i].row.Income[1]
    \/ t[j].row.Income[1] = t[i].row.Income[1] /\ j < i

Rank(t, i) == Cardinality({j \in 1..Len(t) : Before(t, j, i)})

Project(t) ==
    [k \in 1..Len(t) |->
        [idx |-> t[k].idx,
         row |-> [State |-> t[k].row.State, Income |-> t[k].row.Income,
                  Female_Proportion |-> t[k].row.Female_Proportion]]]

NLargest(n, t) ==
    [k \in 1..Min(n, Len(t)) |-> t[CHOOSE i \in 1..Len(t) : Rank(t, i) = k - 1]]

(***************************************************************************)
(* Input files (states*.csv).  Families of inputs, each within the bounds: *)
(* duplicate-rich tables split over one or two files, single rows over all *)
(* demographic cells, single rows over GenderPop texts and TotalPop,       *)
(* longer tables over Income whose first rows share a State, single rows   *)
(* over Income texts, and malformed inputs (no file at all among them).    *)
(***************************************************************************)
SeqsUpTo(S, n) == UNION {[1..k -> S] : k \in 0..n}

RawRow(state, pop, h, w, b, n, a, p, income, gender) ==
    [State |-> state, TotalPop |-> pop, Hispanic |-> h, White |-> w,
     Black |-> b, Native |-> n, Asian |-> a, Pacific |-> p,
     Income |-> income, GenderPop |-> gender]

P0 == <<"0", "%">>
P20 == <<"2", "0", "%">>
P40 == <<"4", "0", "%">>

BaseGender == <<"1", "M", "_", "1", "F">>

BaseRow(state, income) ==
    RawRow(state, 2, P20, P40, P40, P0, P0, P0, income, BaseGender)

DedupPool ==
    { BaseRow("A", <<"$", "1", "0">>),
      BaseRow("A", <<"1", ",", "0">>),
      RawRow("A", 2, P20, P40, Missing, P0, P0, P0, <<"$", "1", "0">>, BaseGender),
      BaseRow("B", <<"$", "1", "0">>) }

DedupInputs ==
    LET tables == SeqsUpTo(DedupPool, MaxRows) \ {<<>>}
    IN {<<t>> : t \in tables}
       \cup {<<SubSeq(tk[1], 1, tk[2]), SubSeq(tk[1], tk[2] + 1, Len(tk[1]))>> :
                tk \in {x \in tables \X (1..MaxRows) : x[2] < Len(x[1])}}

PctCells == {Missing, P0, P40}

ImputeInputs ==
    {<<<<RawRow("A", 2, h, w, b, n, a, p, <<"$", "1">>, BaseGender)>>>> :
        h \in PctCells, w \in PctCells, b \in PctCells,
        n \in PctCells, a \in PctCells, p \in PctCells}

GenderDigits == {"0", "2"}

GenderInputs ==
    {<<<<RawRow("A", pop, P20, P40, P40, P0, P0, P0, <<"$", "1">>,
                m \o <<"M", "_">> \o f \o <<"F">>)>>>> :
        pop \in 0..MaxPop,
        m \in SeqsUpTo(GenderDigits, MaxDigits),
        f \in SeqsUpTo(GenderDigits, MaxDigits)}

TopInputs ==
    UNION {
      {<<[i \in 1..k |->
            BaseRow(IF i <= shared THEN "A" ELSE ToString(i),
                    <<"$", income[i]>>)]>> :
          shared \in 0..k, income \in [1..k -> {"1", "2"}]} :
      k \in 1..MaxTopRows}

IncomeChars == {"$", ",", "1", "x"}

IncomeInputs ==
    {<<<<BaseRow("A", inc)>>>> :
        inc \in SeqsUpTo(IncomeChars, MaxIncomeLen) \ {<<>>}}

MalformedInputs ==
    { <<>>,
      <<<<RawRow("A", 2, P20, P40, P40, P0, P0, P0, <<"$", "1">>, <<"1", "M">>)>>>>,
      <<<<RawRow("A", 2, P20, P40, P40, P0, P0, P0, <<"$", "1">>,
                 <<"x", "M", "_", "1", "F">>)>>>>,
      <<<<RawRow("A", 2, <<"x", "%">>, P40, P40, P0, P0, P0, <<"$", "1">>,
                 BaseGender)>>>> }

Inputs ==
    DedupInputs \cup ImputeInputs \cup GenderInputs \cup TopInputs
        \cup IncomeInputs \cup MalformedInputs

(***************************************************************************)
(* The script, one action per section.  An exception ends the run.         *)
(***************************************************************************)
Init ==
    /\ files \in Inputs
    /\ pc = "load"
    /\ df = <<>>
    /\ initial_count = 0
    /\ duplicate_count = 0
    /\ final_count = 0
    /\ demographic = 1
    /\ top_income_states = <<>>
    /\ written = {}
    /\ exported = <<>>
    /\ raised = "none"

Raise(stage) ==
    /\ pc' = "failed"
    /\ raised' = stage
    /\ UNCHANGED <<files, df, initial_count, duplicate_count, final_count,
                   demographic, top_income_states, written, exported>>

Goto(next, table) ==
    /\ pc' = next
    /\ df' = table
    /\ UNCHANGED <<files, initial_count, duplicate_count, final_count,
                   demographic, top_income_states, written, exported, raised>>

Load ==
    /\ pc = "load"
    /\ IF ConcatRaises(files) THEN Raise("load")
       ELSE Goto("income", Concat(files))

Income ==
    /\ pc = "income"
    /\ IF IncomeRaises(df) THEN Raise("income")
       ELSE Goto("gender", CleanIncome(df))

Gender ==
    /\ pc = "gender"
    /\ IF GenderRaises(df) THEN Raise("gender")
       ELSE Goto("percent", SplitGender(df))

Percent ==
    /\ pc = "percent"
    /\ IF PercentRaises(df) THEN Raise("percent")
       ELSE Goto("dedup", CleanPercent(df))

Dedup ==
    /\ pc = "dedup"
    /\ initial_count' = Len(df)
    /\ duplicate_count' = DuplicateCount(df)
    /\ df' = Deduplicate(df)
    /\ final_count' = Len(df')
    /\ pc' = "feature"
    /\ UNCHANGED <<files, demographic, top_income_states, written, exported, raised>>

Feature ==
    /\ pc = "feature"
    /\ Goto("scatter", AddFemaleProportion(df))

Scatter ==
    /\ pc = "scatter"
    /\ pc' = "missing"
    /\ written' = written \cup {ScatterFile}
    /\ UNCHANGED <<files, df, initial_count, duplicate_count, final_count,
                   demographic, top_income_states, exported, raised>>

ScatterRaise ==
    /\ pc = "scatter"
    /\ PolyfitIllPosed(df)
    /\ Raise("scatter")

MissingReport ==
    /\ pc = "missing"
    /\ Goto("impute", df)

Imputer ==
    /\ pc = "impute"
    /\ Goto("hist", Impute(df))

Histogram ==
    /\ pc = "hist"
    /\ demographic <= Len(demographic_cols)
    /\ written' = written \cup {HistFile(demographic_cols[demographic])}
    /\ demographic' = demographic + 1
    /\ UNCHANGED <<files, pc, df, initial_count, duplicate_count, final_count,
                   top_income_states, exported, raised>>

\* Faulty variant: the histogram loop is left one column early.
SummaryOneEarly ==
    /\ pc = "hist"
    /\ demographic >= Len(demographic_cols)
    /\ top_income_states' = Project(NLargest(TopN, df))
    /\ pc' = "export"
    /\ UNCHANGED <<files, df, initial_count, duplicate_count, final_count,
                   demographic, written, exported, raised>>

Summary ==
    /\ pc = "hist"
    /\ demographic > Len(demographic_cols)
    /\ top_income_states' = Project(NLargest(TopN, df))
    /\ pc' = "export"
    /\ UNCHANGED <<files, df, initial_count, duplicate_count, final_count,
                   demographic, written, exported, raised>>

Export ==
    /\ pc = "export"
    /\ exported' = Rows(df)
    /\ written' = written \cup {ExportFile}
    /\ pc' = "done"
    /\ UNCHANGED <<files, df, initial_count, duplicate_count, final_count,
                   demographic, top_income_states, raised>>

Next ==
    \/ Load
    \/ Income
    \/ Gender
    \/ Percent
    \/ Dedup
    \/ Feature
    \/ Scatter
    \/ ScatterRaise
    \/ MissingReport
    \/ Imputer
    \/ Histogram
    \/ Summary
    \/ Export

Spec == Init /\ [][Next]_vars

(***************************************************************************)
(* The table each stage receives, recomputed from the input files (each a  *)
(* one-element set, so that a formula binds the table once with \A).       *)
(***************************************************************************)
Loaded == {Concat(files)}

Normalized ==
    {CleanPercent(g) : g \in {SplitGender(c) : c \in {CleanIncome(l) : l \in Loaded}}}

Derived == {AddFemaleProportion(d) : d \in {Deduplicate(n) : n \in Normalized}}

PostDedup == pc \in {"feature", "scatter", "missing", "impute", "hist", "export", "done"}

PostImpute == pc \in {"hist", "export", "done"}

Val(x) == IF x = NaN THEN 0 ELSE x[1]

KnownTotal(r) ==
    Val(r.Hispanic) + Val(r.White) + Val(r.Black)
        + Val(r.Native) + Val(r.Asian) + Val(r.Pacific)

MissingCols(r) == {c \in DemoSet : r[c] = NaN}

(***************************************************************************)
(* C1: after deduplication the table holds exactly the rows that equal no  *)
(* earlier row, in their original order, with index 0..n-1, and the row    *)
(* count has dropped by the number of rows that equal an earlier row.      *)
(***************************************************************************)
FirstOccurrences(t) ==
    {i \in 1..Len(t) : \A j \in 1..Len(t) : j < i => t[j].row # t[i].row}

NthOf(S, k) == CHOOSE i \in S : Cardinality({j \in S : j < i}) = k - 1

C1_Deduplicator ==
    pc = "feature" =>
        \A before \in Normalized :
            LET keep == FirstOccurrences(before)
            IN /\ Len(df) = Cardinality(keep)
               /\ \A k \in 1..Len(df) :
                     /\ df[k].idx = k - 1
                     /\ df[k].row = before[NthOf(keep, k)].row
               /\ initial_count = Len(before)
               /\ final_count = Len(df)
               /\ initial_count - final_count = Len(before) - Cardinality(keep)
               /\ duplicate_count = initial_count - final_count

C1_Witness ==
    /\ pc = "feature"
    /\ duplicate_count > 0
    /\ Len(df) >= 2
    /\ \E before \in Normalized :
          \E i, j, k \in 1..Len(before) :
             /\ i < j
             /\ j < k
             /\ before[i].row # before[j].row
             /\ before[k].row = before[i].row

(***************************************************************************)
(* C2 as stated: every row with at most one missing demographic value sums *)
(* to 100 after imputation.                                                *)
(***************************************************************************)
C2_AtMostOneMissing ==
    PostImpute =>
        \A before \in Derived :
           \A i \in 1..Len(df) :
              Cardinality(MissingCols(before[i].row)) <= 1
                  => KnownTotal(df[i].row) = HUNDRED

(***************************************************************************)
(* C2 amended: every row with exactly one missing demographic value sums   *)
(* to 100 after imputation, the missing value being 100 minus the sum of   *)
(* the other five.                                                         *)
(***************************************************************************)
C2_ExactlyOneMissing ==
    PostImpute =>
        \A before \in Derived :
           \A i \in 1..Len(df) :
              Cardinality(MissingCols(before[i].row)) = 1
                  => /\ MissingCols(df[i].row) = {}
                     /\ KnownTotal(df[i].row) = HUNDRED
                     /\ \A c \in MissingCols(before[i].row) :
                           df[i].row[c] = <<HUNDRED - KnownTotal(before[i].row)>>

C2_Witness ==
    /\ pc = "hist"
    /\ \E before \in Derived :
          \E i \in 1..Len(df) :
             /\ Cardinality(MissingCols(before[i].row)) = 1
             /\ KnownTotal(before[i].row) \notin {0, HUNDRED}

C4_ImputerIdempotent ==
    PostImpute =>
        \A before \in Derived :
           /\ (\A i \in 1..Len(before) : MissingCols(before[i].row) = {})
                  => df = before
           /\ Impute(df) = df

C4_Witness ==
    /\ pc = "hist"
    /\ Len(df) > 0
    /\ \E before \in Derived :
          \A i \in 1..Len(before) : MissingCols(before[i].row) = {}
    /\ \E i \in 1..Len(df) : \E c \in DemoSet : df[i].row[c] = <<0>>

AllDigits(s) == \A i \in 1..Len(s) : s[i] \in Digits

RECURSIVE Decimal(_, _)
Decimal(s, acc) ==
    IF s = <<>> THEN acc ELSE Decimal(Tail(s), 10 * acc + DigitVal(Head(s)))

(***************************************************************************)
(* C5: a GenderPop text "<m>M_<f>F" with digit strings m and f gives       *)
(* Male = m and Female = f as integers, "M_<f>F" gives a missing Male and  *)
(* Female = f, and no row has a GenderPop column afterwards.               *)
(***************************************************************************)
C5_GenderSplit ==
    pc = "percent" =>
        \A raw \in Loaded :
           \A i \in 1..Len(df) :
              /\ "GenderPop" \notin DOMAIN df[i].row
              /\ \A k \in 1..(Len(raw[i].row.GenderPop) - 3) :
                    LET g == raw[i].row.GenderPop
                        m == SubSeq(g, 1, k - 1)
                        f == SubSeq(g, k + 2, Len(g) - 1)
                    IN (/\ g[k] = "M"
                        /\ g[k + 1] = "_"
                        /\ g[Len(g)] = "F"
                        /\ AllDigits(m)
                        /\ AllDigits(f))
                           => /\ df[i].row.Female = <<Decimal(f, 0)>>
                              /\ df[i].row.Male =
                                    IF m = <<>> THEN NaN ELSE <<Decimal(m, 0)>>

C5_Witness ==
    /\ pc = "percent"
    /\ \E i \in 1..Len(df) :
          /\ df[i].row.Male = NaN
          /\ df[i].row.Female # NaN
          /\ df[i].row.Female[1] >= 10

(***************************************************************************)
(* C6 as stated: a row with TotalPop = 0 gets NaN as Female_Proportion     *)
(* whatever Female is, and the division never raises.                      *)
(***************************************************************************)
C6_ZeroPopAlwaysNaN ==
    pc = "scatter" =>
        \A i \in 1..Len(df) :
            df[i].row.TotalPop = 0 => df[i].row.Female_Proportion.kind = "nan"

(***************************************************************************)
(* C6 amended: the division never raises; a row with TotalPop = 0 gets NaN *)
(* when Female is 0 or missing and +infinity when Female is positive; a    *)
(* row with TotalPop > 0 and Female present gets Female / TotalPop.        *)
(***************************************************************************)
C6_ZeroPopNaNOrInf ==
    /\ raised # "feature"
    /\ pc = "scatter" =>
          \A i \in 1..Len(df) :
              LET r == df[i].row
                  fp == r.Female_Proportion
              IN /\ (r.TotalPop = 0 /\ r.Female \in {NaN, <<0>>}) => fp.kind = "nan"
                 /\ (r.TotalPop = 0 /\ r.Female \notin {NaN, <<0>>}) => fp.kind = "inf"
                 /\ (r.TotalPop > 0 /\ r.Female # NaN)
                       => /\ fp.kind = "num"
                          /\ fp.d > 0
                          /\ fp.n * r.TotalPop = r.Female[1] * fp.d

C6_Witness ==
    /\ pc = "scatter"
    /\ \E i \in 1..Len(df) :
          /\ df[i].row.TotalPop = 0
          /\ df[i].row.Female \notin {NaN, <<0>>}
          /\ df[i].row.Female_Proportion.kind = "inf"

TopOrdered(top) ==
    \A k, l \in 1..Len(top) :
        k < l => \/ top[k].row.Income[1] > top[l].row.Income[1]
                 \/ /\ top[k].row.Income[1] = top[l].row.Income[1]
                    /\ top[k].idx < top[l].idx

(***************************************************************************)
(* C7 as stated: the top-5 query returns exactly 5 rows with pairwise      *)
(* distinct State values, in descending Income, equal Incomes in row       *)
(* order.                                                                  *)
(***************************************************************************)
C7_ExactlyFiveDistinct ==
    pc \in {"export", "done"} =>
        /\ Len(top_income_states) = TopN
        /\ \A k, l \in 1..Len(top_income_states) :
              k # l => top_income_states[k].row.State # top_income_states[l].row.State
        /\ TopOrdered(top_income_states)

(***************************************************************************)
(* C7 amended: the top-5 query returns min(5, number of rows) rows of the  *)
(* table, whose State values may repeat, in descending Income, equal       *)
(* Incomes in row order, and every row left out has a lower Income than    *)
(* every row returned or an equal Income and a later position.             *)
(***************************************************************************)
C7_TopByIncome ==
    pc \in {"export", "done"} =>
        LET top == top_income_states
            pos == {top[k].idx + 1 : k \in 1..Len(top)}
        IN /\ Len(top) = Min(TopN, Len(df))
           /\ Cardinality(pos) = Len(top)
           /\ pos \subseteq 1..Len(df)
           /\ \A k \in 1..Len(top) :
                 /\ top[k].row.State = df[top[k].idx + 1].row.State
                 /\ top[k].row.Income = df[top[k].idx + 1].row.Income
           /\ TopOrdered(top)
           /\ \A j \in (1..Len(df)) \ pos : \A k \in 1..Len(top) :
                 \/ df[j].row.Income[1] < top[k].row.Income[1]
                 \/ /\ df[j].row.Income[1] = top[k].row.Income[1]
                    /\ j > top[k].idx + 1

C7_Witness ==
    /\ pc = "export"
    /\ Len(df) > TopN
    /\ Len(top_income_states) = TopN
    /\ \E j \in 1..Len(df) :
          /\ j > top_income_states[TopN].idx + 1
          /\ df[j].row.Income = top_income_states[TopN].row.Income
    /\ \E k, l \in 1..TopN :
          /\ k < l
          /\ top_income_states[k].row.State = top_income_states[l].row.State
    /\ \E j \in 1..Len(df) :
          /\ j < top_income_states[1].idx + 1
          /\ df[j].row.Income[1] < top_income_states[1].row.Income[1]

Residual(s) == SelectSeq(s, LAMBDA ch : ch \notin {"$", ","})

BadIncome(t) ==
    \E i \in 1..Len(t) :
        LET res == Residual(t[i].row.Income)
        IN res = <<>> \/ \E k \in 1..Len(res) : res[k] \notin Digits

NothingLater ==
    /\ written = {}
    /\ exported = <<>>
    /\ top_income_states = <<>>
    /\ demographic = 1
    /\ initial_count = 0
    /\ final_count = 0

(***************************************************************************)
(* C8: with no input file, or with an Income text that is not numeric once *)
(* "$" and "," are removed, the run ends with an error at that section:    *)
(* nothing of a later section has happened and no step follows.            *)
(***************************************************************************)
C8_FatalOnMalformedInput ==
    /\ files = <<>> =>
          /\ pc \in {"load", "failed"}
          /\ pc = "failed" => raised = "load"
          /\ df = <<>>
          /\ NothingLater
    /\ \A raw \in Loaded :
          (files # <<>> /\ BadIncome(raw)) =>
              /\ pc \in {"load", "income", "failed"}
              /\ pc = "failed" => raised = "income"
              /\ pc # "load" => df = raw
              /\ NothingLater
    /\ pc = "failed" => ~ENABLED Next

C8_Witness ==
    /\ pc = "failed"
    /\ raised = "income"
    /\ Len(df) = 1
    /\ Residual(df[1].row.Income) = <<>>

(***************************************************************************)
(* C9: at every point after deduplication, and in the exported table, no   *)
(* two rows are equal in all columns.                                      *)
(***************************************************************************)
C9_NoDuplicateRows ==
    /\ PostDedup =>
          \A i, j \in 1..Len(df) : i # j => df[i].row # df[j].row
    /\ \A i, j \in 1..Len(exported) : i # j => exported[i] # exported[j]

Images == {ScatterFile} \cup {HistFile(c) : c \in DemoSet}

(***************************************************************************)
(* C10: the export file is written only after the scatter plot, the six    *)
(* histograms and the imputation, so once it exists the seven images exist *)
(* and it holds the imputed values; a run that ended with an error has     *)
(* written no export file.                                                 *)
(***************************************************************************)
C10_ExportLast ==
    /\ ExportFile \in written =>
          /\ Images \subseteq written
          /\ pc = "done"
          /\ exported = Rows(df)
          /\ \A before \in Derived :
                /\ Len(exported) = Len(before)
                /\ \A i \in 1..Len(exported) : \A c \in DemoSet :
                      exported[i][c] =
                          IF before[i].row[c] = NaN
                          THEN <<HUNDRED - KnownTotal(before[i].row)>>
                          ELSE before[i].row[c]
    /\ ExportFile \notin written => exported = <<>>
    /\ pc = "failed" => ExportFile \notin written

C10_Witness ==
    /\ pc = "done"
    /\ ExportFile \in written
    /\ Cardinality(written) = Cardinality(Images) + 1
    /\ \E before \in Derived : \E i \in 1..Len(exported) :
          MissingCols(before[i].row) # {} /\ MissingCols(exported[i]) = {}

====
